---- MODULE Spec2Model ----
(***************************************************************************)
(* Model of the thermal-printer API server (server/printer-api.js): the    *)
(* process-wide activePrinterConnection, the net.Socket objects the        *)
(* handlers create, the connect timers, and the express request handlers.  *)
(* One action is one run-to-completion step of the Node event loop: the    *)
(* arrival of a request (the handler up to its first await or to its       *)
(* response), a socket event ('connect', 'error', write completion) with   *)
(* the callbacks and promise continuations it triggers, or a timer firing. *)
(***************************************************************************)
EXTENDS Integers, Sequences, FiniteSets, TLC

\* ------------------------------------------------------------------ bounds
MaxRequests == 3
MaxSockets == 3

SockIds == 1..MaxSockets

\* activePrinterConnection = null
None == 0

\* ------------------------------------------------------- JavaScript values
Undefined == [t |-> "undefined", v |-> <<>>]
Str(s) == [t |-> "string", v |-> s]
Num(n) == [t |-> "number", v |-> <<n>>]

\* JavaScript truthiness, as used by `!ipAddress || !port` and `customText &&`
Truthy(x) ==
  CASE x.t = "undefined" -> FALSE
    [] x.t = "string" -> x.v # <<>>
    [] x.t = "number" -> x.v[1] # 0

IsSpace(c) == c \in {9, 10, 11, 12, 13, 32, 160}

RECURSIVE TrimStart(_)
TrimStart(s) ==
  IF s = <<>> THEN <<>>
  ELSE IF IsSpace(Head(s)) THEN TrimStart(Tail(s)) ELSE s

RECURSIVE TrimEnd(_)
TrimEnd(s) ==
  IF s = <<>> THEN <<>>
  ELSE IF IsSpace(s[Len(s)]) THEN TrimEnd(SubSeq(s, 1, Len(s) - 1)) ELSE s

\* String.prototype.trim
Trim(s) == TrimEnd(TrimStart(s))

\* Buffer.from(string): UTF-8 encoding of code points below 0x800
RECURSIVE Utf8(_)
Utf8(s) ==
  IF s = <<>> THEN <<>>
  ELSE IF Head(s) < 128 THEN <<Head(s)>> \o Utf8(Tail(s))
  ELSE <<192 + (Head(s) \div 64), 128 + (Head(s) % 64)>> \o Utf8(Tail(s))

RECURSIVE Digits(_)
Digits(n) ==
  IF n < 10 THEN <<48 + n>> ELSE Digits(n \div 10) \o <<48 + (n % 10)>>

\* template-literal conversion `${x}`
TemplateString(x) ==
  CASE x.t = "undefined" -> <<117, 110, 100, 101, 102, 105, 110, 101, 100>>
    [] x.t = "string" -> x.v
    [] x.t = "number" -> Digits(x.v[1])

\* ------------------------------------------------------- ESC/POS commands
INIT == <<27, 64>>
BOLD_ON == <<27, 69, 1>>
BOLD_OFF == <<27, 69, 0>>
CENTER == <<27, 97, 1>>
LEFT == <<27, 97, 0>>
FEED == <<10>>
CUT == <<29, 86, 66, 0>>
LARGE_TEXT == <<27, 33, 48>>
NORMAL_TEXT == <<27, 33, 0>>

\* 'Hard Plot Center'
BrandHeader == <<72, 97, 114, 100, 32, 80, 108, 111, 116, 32, 67, 101, 110, 116, 101, 114>>
\* 'Printed: '
PrintedPrefix == <<80, 114, 105, 110, 116, 101, 100, 58, 32>>

\* ---------------------------------------------------------- error messages
MsgRequired == "IP address and port are required"
MsgTimeout == "Connection timeout"
MsgNotConnected == "Printer not connected"
MsgSocketError == "socket error"
MsgStreamDestroyed == "Cannot call write after a stream was destroyed"
MsgClosed == "Socket closed before write completed"
MsgTypeError == "TypeError"
MsgNullWrite == "Cannot read properties of null (reading 'write')"

\* ------------------------------------------------------------ print encoder
\* The try block of POST /api/printer/print up to Buffer.concat: the result
\* is either the print buffer or the TypeError the block throws.
\* variant: the custom text is not followed by bold off
CustomBlockNoBoldOff(customText) ==
  CENTER \o NORMAL_TEXT \o BOLD_ON \o Utf8(customText.v) \o FEED \o FEED

CustomBlock(customText) ==
  CENTER \o NORMAL_TEXT \o BOLD_ON \o Utf8(customText.v) \o BOLD_OFF \o FEED \o FEED

\* variant: the blank test without trim()
HasCustomTextNoTrim(customText) == Truthy(customText)

\* `customText && customText.trim()`
HasCustomText(customText) ==
  Truthy(customText) /\ (customText.t = "string" => Trim(customText.v) # <<>>)

\* variant: the text is converted with String(text) first
TextBytesLenient(text) == [threw |-> FALSE, bytes |-> Utf8(TemplateString(text))]

\* Buffer.from(text): a TypeError unless text is a string
TextBytes(text) ==
  IF text.t = "string" THEN [threw |-> FALSE, bytes |-> Utf8(text.v)]
  ELSE [threw |-> TRUE, bytes |-> <<>>]

\* variant: the timestamp line does not switch to normal text and bold off
BuildPrintJobStyleLeft(body) ==
  IF Truthy(body.customText) /\ body.customText.t # "string"
  THEN [threw |-> TRUE, buf |-> <<>>]
  ELSE IF TextBytes(body.text).threw
  THEN [threw |-> TRUE, buf |-> <<>>]
  ELSE [threw |-> FALSE,
        buf |-> CENTER \o LARGE_TEXT \o BOLD_ON \o BrandHeader \o BOLD_OFF \o FEED \o FEED
                \o (IF HasCustomText(body.customText) THEN CustomBlock(body.customText) ELSE <<>>)
                \o CENTER \o LARGE_TEXT \o BOLD_ON \o TextBytes(body.text).bytes \o FEED \o FEED
                \o PrintedPrefix \o Utf8(TemplateString(body.timestamp))
                \o FEED \o FEED \o FEED
                \o CUT]

BuildPrintJob(body) ==
  IF Truthy(body.customText) /\ body.customText.t # "string"
  THEN [threw |-> TRUE, buf |-> <<>>]          \* customText.trim is not a function
  ELSE IF TextBytes(body.text).threw
  THEN [threw |-> TRUE, buf |-> <<>>]          \* Buffer.from(undefined | number)
  ELSE [threw |-> FALSE,
        buf |-> CENTER \o LARGE_TEXT \o BOLD_ON \o BrandHeader \o BOLD_OFF \o FEED \o FEED
                \o (IF HasCustomText(body.customText) THEN CustomBlock(body.customText) ELSE <<>>)
                \o CENTER \o LARGE_TEXT \o BOLD_ON \o TextBytes(body.text).bytes \o FEED \o FEED
                \o NORMAL_TEXT \o BOLD_OFF \o PrintedPrefix \o Utf8(TemplateString(body.timestamp))
                \o FEED \o FEED \o FEED
                \o CUT]

\* ------------------------------------------------------------ request bodies
EmptyBody ==
  [ipAddress |-> Undefined, port |-> Undefined,
   text |-> Undefined, customText |-> Undefined, timestamp |-> Undefined]

\* "10.0.0.99"
HostIP == Str(<<49, 48, 46, 48, 46, 48, 46, 57, 57>>)

ConnectBodies ==
  { [EmptyBody EXCEPT !.ipAddress = HostIP, !.port = Num(9100)],
    [EmptyBody EXCEPT !.ipAddress = HostIP] }

\* "Dona", "   ", "2024"
PrintBodies ==
  { [EmptyBody EXCEPT !.text = Str(<<68, 111, 110, 97>>), !.customText = Str(<<32, 32, 32>>)],
    [EmptyBody EXCEPT !.text = Str(<<68, 111, 110, 97>>), !.timestamp = Str(<<50, 48, 50, 52>>)],
    EmptyBody,
    [EmptyBody EXCEPT !.text = Str(<<68, 111, 110, 97>>), !.customText = Num(5)] }

\* ------------------------------------------------------------------- state
VARIABLES
  activePrinterConnection,  \* None or the id of the socket the global holds
  sockets,                  \* the net.Socket objects, by id
  req,                      \* the requests: handler position, timer, response
  crashed,                  \* an exception escaped to the event loop
  scan,                     \* the discovery scan: its probes and its answer
  enc,                      \* a print job and the buffer the encoder built for it
  config,                   \* the client's API URL configuration (src/config.ts)
  serial                    \* the client's Web Serial connection and print calls (src/App.tsx)

vars == <<activePrinterConnection, sockets, req, crashed, scan, enc, config, serial>>

\* the requests of the run
ReqIds == DOMAIN req

\* a socket that `new net.Socket()` has not produced yet
FreshSocket ==
  [state |-> "unused",   \* "unused" | "connecting" | "established" | "destroyed"
   errored |-> FALSE,    \* the socket emitted 'error'
   owner |-> 0,          \* the connect request whose callbacks are attached
   writeQ |-> <<>>,      \* writes accepted by the stream, not yet completed
   wire |-> <<>>,        \* writes completed, in order
   openAtCreate |-> {}]  \* history: sockets that were open when this one was created

NoResponse == [success |-> FALSE, error |-> "", connected |-> FALSE]
Ok == [success |-> TRUE, error |-> "", connected |-> FALSE]
Fail(msg) == [success |-> FALSE, error |-> msg, connected |-> FALSE]

IdleRequest ==
  [kind |-> "none",      \* "connect" | "disconnect" | "print" | "health"
   phase |-> "idle",     \* "idle" | "awaiting" | "done"
   body |-> EmptyBody,
   timer |-> "none",     \* "none" | "armed" | "cleared" | "fired"
   sock |-> 0,           \* the socket a connect request created
   prev |-> 0,           \* history: activePrinterConnection when the request arrived
   overlaps |-> {},      \* history: connect requests awaiting when the request arrived
   resp |-> NoResponse]

\* ---------------------------------------------------------- discovery scan
\* last host suffix scanned (the source scans 1..254)
MaxHost == 2

\* const ports = [9100, 515]
Ports == <<9100, 515>>

\* '192.168.1'
DefaultBaseIP == <<49, 57, 50, 46, 49, 54, 56, 46, 49>>

\* values of req.query.baseIP: absent, "127.0.0", ""
BaseIPQueries == {Undefined, Str(<<49, 50, 55, 46, 48, 46, 48>>), Str(<<>>)}

\* variant: the loop misses the last host
ScanTargetsShort ==
  [k \in 1..((MaxHost - 1) * Len(Ports)) |->
     [host |-> ((k - 1) \div Len(Ports)) + 1, port |-> Ports[((k - 1) % Len(Ports)) + 1]]]

\* the (host suffix, port) pairs in the order the nested loops push them
ScanTargets ==
  [k \in 1..(MaxHost * Len(Ports)) |->
     [host |-> ((k - 1) \div Len(Ports)) + 1, port |-> Ports[((k - 1) % Len(Ports)) + 1]]]

\* `${baseIP}.${i}`
ProbeIP(baseIP, i) == baseIP \o <<46>> \o Digits(i)

\* `Network Printer (${ip})`
PrinterName(ip) ==
  <<78, 101, 116, 119, 111, 114, 107, 32, 80, 114, 105, 110, 116, 101, 114, 32, 40>> \o ip \o <<41>>

\* the value a probe resolves with when its connect succeeds
PrinterRecord(ip, port) == [ipAddress |-> ip, port |-> port, name |-> PrinterName(ip)]

\* resolve(null)
NullValue == [ipAddress |-> <<>>, port |-> 0, name |-> <<>>]

\* one call of checkPrinterAtAddress: its socket, its timer and its promise
LaunchedProbe(baseIP, target) ==
  [ip |-> ProbeIP(baseIP, target.host),
   port |-> target.port,
   sock |-> [FreshSocket EXCEPT !.state = "connecting"],
   timer |-> "armed",
   settled |-> FALSE,
   value |-> NullValue,
   resolves |-> 0,        \* history: calls of resolve
   outcome |-> "none"]    \* history: "found" | "timeout" | "error", the event that settled it

NoScanResponse == [success |-> FALSE, error |-> "", printers |-> <<>>]

\* first: history, the probe that settled first (0: none yet)
IdleScan == [phase |-> "idle", baseIP |-> <<>>, probes |-> <<>>, resp |-> NoScanResponse, first |-> 0]

\* ------------------------------------------------------- encoder inputs
\* "Dona", "", "ñ", 7
EncodeTexts == {Undefined, Str(<<68, 111, 110, 97>>), Str(<<>>), Str(<<241>>), Num(7)}
\* "", "   ", " Hi ", tab + no-break space, 5, 0
EncodeCustomTexts ==
  {Undefined, Str(<<>>), Str(<<32, 32, 32>>), Str(<<32, 72, 105, 32>>), Str(<<9, 160>>), Num(5), Num(0)}
\* "", " ", "2024", 12
EncodeTimestamps == {Undefined, Str(<<>>), Str(<<32>>), Str(<<50, 48, 50, 52>>), Num(12)}

EncodeBodies ==
  { [EmptyBody EXCEPT !.text = t, !.customText = c, !.timestamp = ts] :
      t \in EncodeTexts, c \in EncodeCustomTexts, ts \in EncodeTimestamps }

IdleEnc == [body |-> EmptyBody, done |-> FALSE, out |-> [threw |-> FALSE, buf |-> <<>>]]

\* --------------------------------------------------- client configuration
\* const port = 3001
BackendPort == 3001

\* 'http://localhost:3001'
LocalhostUrl ==
  <<104, 116, 116, 112, 58, 47, 47, 108, 111, 99, 97, 108, 104, 111, 115, 116, 58, 51, 48, 48, 49>>

\* "http://a", "http://b"
UrlA == <<104, 116, 116, 112, 58, 47, 47, 97>>
UrlB == <<104, 116, 116, 112, 58, 47, 47, 98>>

\* arguments of setApiBaseUrl / updateApiBaseUrl: "", "  ", " http://a ", "http://b"
UrlInputs == {Str(<<>>), Str(<<32, 32>>), Str(<<32>> \o UrlA \o <<32>>), Str(UrlB)}

\* import.meta.env.VITE_API_URL: unset, "", "http://b"
ViteUrls == {Undefined, Str(<<>>), Str(UrlB)}

\* window.location: ("http:", "pos"), ("https:", "10.0.0.5")
Locations ==
  { [protocol |-> <<104, 116, 116, 112, 58>>, hostname |-> <<112, 111, 115>>],
    [protocol |-> <<104, 116, 116, 112, 115, 58>>, hostname |-> <<49, 48, 46, 48, 46, 48, 46, 53>>] }

\* localStorage entry left by an earlier page load: none, or "http://a"
StoredUrls == {Undefined, Str(UrlA)}

\* getDefaultApiUrl()
GetDefaultApiUrl(c) ==
  IF Truthy(c.vite) THEN c.vite.v
  ELSE IF c.prod THEN c.protocol \o <<47, 47>> \o c.hostname \o <<58>> \o Digits(BackendPort)
  ELSE LocalhostUrl

\* variant: the environment is consulted before localStorage
GetApiBaseUrlEnvFirst(c) ==
  IF Truthy(c.vite) THEN c.vite.v
  ELSE IF Truthy(c.storage) THEN c.storage.v
  ELSE IF c.prod THEN c.protocol \o <<47, 47>> \o c.hostname \o <<58>> \o Digits(BackendPort)
  ELSE LocalhostUrl

\* getApiBaseUrl()
GetApiBaseUrl(c) ==
  IF Truthy(c.storage) THEN c.storage.v
  ELSE IF Truthy(c.vite) THEN c.vite.v
  ELSE IF c.prod THEN c.protocol \o <<47, 47>> \o c.hostname \o <<58>> \o Digits(BackendPort)
  ELSE LocalhostUrl

\* hasCustomApiUrl(): localStorage.getItem(STORAGE_KEY) !== null
HasCustomApiUrl(c) == c.storage # Undefined

\* setApiBaseUrl(url): the entry after the call
StoreUrl(storage, url) ==
  IF Truthy(url) /\ Trim(url.v) # <<>> THEN Str(Trim(url.v)) ELSE storage

\* variant: the entry is emptied instead of removed
RemoveUrlEmpty(storage) == Str(<<>>)

\* clearApiBaseUrl(): localStorage.removeItem(STORAGE_KEY)
RemoveUrl(storage) == Undefined

\* the configuration when the module is loaded in environment (vite, prod,
\* loc) with localStorage entry stored: `let apiBaseUrl = getApiBaseUrl()`
LoadedConfig(vite, prod, loc, stored) ==
  LET c0 == [vite |-> vite, prod |-> prod, protocol |-> loc.protocol, hostname |-> loc.hostname,
             storage |-> stored,
             apiBaseUrl |-> <<>>,
             shown |-> <<>>,      \* the result of the last getApiBaseUrl() call
             last |-> "load"]     \* history: "load" | "get" | "set" | "update" | "clear"
  IN [c0 EXCEPT !.apiBaseUrl = GetApiBaseUrl(c0)]

IdleConfig == LoadedConfig(Undefined, FALSE, CHOOSE l \in Locations : TRUE, Undefined)

\* ------------------------------------------------- client, Web Serial path
\* calls of printText in one run
MaxPrintCalls == 2

\* names on the print buttons: 'Dona', 'Polo Bao'
ButtonNames == {<<68, 111, 110, 97>>, <<80, 111, 108, 111, 32, 66, 97, 111>>}

\* 'Welcome to Hard Plot Center!'
DefaultCustomText ==
  <<87, 101, 108, 99, 111, 109, 101, 32, 116, 111, 32>> \o BrandHeader \o <<33>>

\* a custom text saved on the settings page: "  "
SavedCustomTexts == {<<32, 32>>}

\* a value of new Date().toLocaleString(): "1"
LocaleTimes == {<<49>>}

MsgSerialConnect == "Failed to connect"
MsgPrintFailed == "Print failed"

\* the chunks printText hands to writer.write, one call each, in order
SerialChunks(text, customText, timestamp) ==
  <<CENTER, LARGE_TEXT, BOLD_ON, Utf8(BrandHeader), BOLD_OFF, FEED, FEED>>
  \o (IF Trim(customText) # <<>>
      THEN <<CENTER, NORMAL_TEXT, BOLD_ON, Utf8(customText), BOLD_OFF, FEED, FEED>>
      ELSE <<>>)
  \o <<CENTER, LARGE_TEXT, BOLD_ON, Utf8(text), FEED, FEED>>
  \o <<NORMAL_TEXT, BOLD_OFF, Utf8(PrintedPrefix \o timestamp), FEED, FEED, FEED, CUT>>

\* a call of printText that has not been made yet
IdleCall ==
  [phase |-> "idle",     \* "idle" | "awaiting" | "done"
   text |-> <<>>,
   chunks |-> <<>>,      \* the writes the call makes, fixed by its closure
   next |-> 0,           \* the next chunk to write
   error |-> ""]

\* the state of App after its first render
IdleSerial ==
  [connect |-> "idle",   \* connectToSerialPrinter: "idle" | "awaiting" | "done"
   connected |-> FALSE,  \* connection.connected
   writer |-> "none",    \* connection.writer: "none" | "open" | "errored"
   customText |-> DefaultCustomText,
   queue |-> <<>>,       \* chunks the writer accepted, not yet written to the port
   sent |-> <<>>,        \* chunks written to the port, in order
   calls |-> [c \in 1..MaxPrintCalls |-> IdleCall],
   lastPrinted |-> <<>>,
   error |-> ""]

InitServer ==
  /\ activePrinterConnection = None
  /\ sockets = [s \in SockIds |-> FreshSocket]
  /\ req = [r \in 1..MaxRequests |-> IdleRequest]
  /\ crashed = FALSE
  /\ scan = IdleScan
  /\ serial = IdleSerial

Init ==
  /\ InitServer
  /\ enc = IdleEnc
  /\ config = IdleConfig

IsOpen(sock) == sock.state \in {"connecting", "established"}
OpenSockets(socks) == {s \in SockIds : IsOpen(socks[s])}

\* the requests arrive in the order of their ids
NextRequest == CHOOSE r \in ReqIds : req[r].phase = "idle" /\ \A q \in ReqIds : q < r => req[q].phase # "idle"
HasNextRequest == \E r \in ReqIds : req[r].phase = "idle"
NoneAwaiting == \A r \in ReqIds : req[r].phase # "awaiting"

Respond(rq, r, resp) == [rq EXCEPT ![r].phase = "done", ![r].resp = resp]

\* requests whose write callback sits in queue q
Writers(q) == {q[i].req : i \in 1..Len(q)} \ {0}

\* variant: the write callback ignores its err argument
WriteCallbackIgnoreErr(err) == Ok

\* the callback of activePrinterConnection.write in the print handler: reject(err)
\* and the catch block's answer, or resolve() and the success answer ("": no error)
WriteCallback(err) == IF err # "" THEN Fail(err) ELSE Ok

\* the write callbacks of queue q are called with an error: each print
\* request awaiting one rejects, and its catch block answers with the message
FailWrites(rq, q, msg) ==
  [r \in ReqIds |->
     IF r \in Writers(q) /\ rq[r].phase = "awaiting"
     THEN [rq[r] EXCEPT !.phase = "done", !.resp = WriteCallback(msg)]
     ELSE rq[r]]

\* socket.destroy(): no-op on a destroyed socket; no 'connect' or 'error'
\* event is emitted afterwards
DestroySocket(socks, s) ==
  IF IsOpen(socks[s])
  THEN [socks EXCEPT ![s].state = "destroyed", ![s].writeQ = <<>>]
  ELSE socks

\* variant: the first write on a socket is preceded by INIT
SocketWriteInitFirst(socks, s, r, data) ==
  IF IsOpen(socks[s])
  THEN [socks EXCEPT ![s].writeQ =
          Append(@, [req |-> r,
                     data |-> IF socks[s].wire = <<>> /\ socks[s].writeQ = <<>> THEN INIT \o data ELSE data])]
  ELSE socks

\* variant: a new write overtakes the writes still pending
SocketWriteFront(socks, s, r, data) ==
  IF IsOpen(socks[s])
  THEN [socks EXCEPT ![s].writeQ = <<[req |-> r, data |-> data]>> \o @]
  ELSE socks

\* socket.write(data, cb) by request r (0: no callback) on socket s
SocketWrite(socks, s, r, data) ==
  IF IsOpen(socks[s])
  THEN [socks EXCEPT ![s].writeQ = Append(@, [req |-> r, data |-> data])]
  ELSE socks

\* variant: the existing connection is not closed
CloseExistingSkip(socks, active) == socks

\* `if (activePrinterConnection) activePrinterConnection.destroy()`
CloseExisting(socks, active) ==
  IF active # None THEN DestroySocket(socks, active) ELSE socks

\* the write queue that the destruction of the active socket fails
ActiveQueue(socks, active) ==
  IF active # None THEN socks[active].writeQ ELSE <<>>

\* variant: the catch block leaves the global as it is
ConnectCatchKeep(active) == active

\* variant: only the address is required
ConnectInvalidIpOnly(body) == ~Truthy(body.ipAddress)

\* `if (!ipAddress || !port)`
ConnectInvalid(body) == ~Truthy(body.ipAddress) \/ ~Truthy(body.port)

\* variant: health always reports a connection
HealthConnectedAlways(active) == TRUE

\* `activePrinterConnection = null` in the catch block of the connect handler
ConnectCatch(active) == None

\* variant: disconnect destroys the socket but keeps the reference
DisconnectActiveKeep(active) == active

\* `activePrinterConnection = null` of the disconnect handler
DisconnectActive(active) == None

\* variant: the print handler without its connection check
PrintNotConnectedNever(active) == FALSE

\* `if (!activePrinterConnection)` of the print handler
PrintNotConnected(active) == active = None

\* `connected: activePrinterConnection !== null`
HealthConnected(active) == active # None

\* `new net.Socket()`: the next socket object
NewSocketId == CHOOSE n \in SockIds : sockets[n].state = "unused" /\ \A m \in SockIds : m < n => sockets[m].state # "unused"
CanCreateSocket == \E n \in SockIds : sockets[n].state = "unused"

Arrived(r, kind, body) ==
  [req[r] EXCEPT !.kind = kind, !.body = body, !.prev = activePrinterConnection,
                 !.overlaps = {q \in ReqIds : req[q].kind = "connect" /\ req[q].phase = "awaiting"}]

\* -------------------------------------------------------- request handlers
\* POST /api/printer/connect, up to the await (or to the validation answer)
ConnectRequest(body) ==
  /\ ~crashed
  /\ UNCHANGED <<scan, enc, config, serial>>
  /\ HasNextRequest
  /\ LET r == NextRequest
         rq0 == [req EXCEPT ![r] = Arrived(r, "connect", body)]
     IN IF ConnectInvalid(body)
        THEN /\ req' = Respond(rq0, r, Fail(MsgRequired))
             /\ UNCHANGED <<activePrinterConnection, sockets, crashed>>
        ELSE /\ CanCreateSocket
             /\ LET n == NewSocketId
                    socks1 == CloseExisting(sockets, activePrinterConnection)
                    rq1 == FailWrites(rq0, ActiveQueue(sockets, activePrinterConnection), MsgClosed)
                IN /\ sockets' = [socks1 EXCEPT ![n] =
                                    [FreshSocket EXCEPT !.state = "connecting", !.owner = r,
                                                        !.openAtCreate = OpenSockets(socks1)]]
                   /\ activePrinterConnection' = n
                   /\ req' = [rq1 EXCEPT ![r].phase = "awaiting", ![r].timer = "armed", ![r].sock = n]
                   /\ UNCHANGED crashed

\* POST /api/printer/disconnect
DisconnectRequest ==
  /\ ~crashed
  /\ UNCHANGED <<scan, enc, config, serial>>
  /\ HasNextRequest
  /\ LET r == NextRequest
         rq0 == [req EXCEPT ![r] = Arrived(r, "disconnect", EmptyBody)]
     IN /\ IF activePrinterConnection # None
           THEN /\ sockets' = DestroySocket(sockets, activePrinterConnection)
                /\ activePrinterConnection' = DisconnectActive(activePrinterConnection)
                /\ req' = Respond(FailWrites(rq0, ActiveQueue(sockets, activePrinterConnection), MsgClosed), r, Ok)
           ELSE /\ req' = Respond(rq0, r, Ok)
                /\ UNCHANGED <<sockets, activePrinterConnection>>
        /\ UNCHANGED crashed

\* POST /api/printer/print, up to the await of the write callback
PrintRequest(body) ==
  /\ ~crashed
  /\ UNCHANGED <<scan, enc, config, serial>>
  /\ HasNextRequest
  /\ LET r == NextRequest
         rq0 == [req EXCEPT ![r] = Arrived(r, "print", body)]
         job == BuildPrintJob(body)
         a == activePrinterConnection
     IN /\ IF PrintNotConnected(a)
           THEN req' = Respond(rq0, r, Fail(MsgNotConnected)) /\ UNCHANGED sockets
           ELSE IF job.threw
           THEN req' = Respond(rq0, r, Fail(MsgTypeError)) /\ UNCHANGED sockets
           ELSE IF a = None
           THEN req' = Respond(rq0, r, Fail(MsgNullWrite)) /\ UNCHANGED sockets
           ELSE IF ~IsOpen(sockets[a])
           THEN req' = Respond(rq0, r, Fail(MsgStreamDestroyed)) /\ UNCHANGED sockets
           ELSE /\ sockets' = SocketWrite(sockets, a, r, job.buf)
                /\ req' = [rq0 EXCEPT ![r].phase = "awaiting", ![r].sock = a]
        /\ UNCHANGED <<activePrinterConnection, crashed>>

\* GET /api/health
HealthRequest ==
  /\ ~crashed
  /\ UNCHANGED <<scan, enc, config, serial>>
  /\ HasNextRequest
  /\ LET r == NextRequest
         rq0 == [req EXCEPT ![r] = Arrived(r, "health", EmptyBody)]
     IN req' = Respond(rq0, r, [success |-> TRUE, error |-> "",
                                connected |-> HealthConnected(activePrinterConnection)])
  /\ UNCHANGED <<activePrinterConnection, sockets, crashed>>

\* ------------------------------------------------------ socket/timer events
ClearTimer(rq, o) == IF rq[o].timer = "armed" THEN [rq EXCEPT ![o].timer = "cleared"] ELSE rq

\* 'connect' of socket s: the callback given to socket.connect by request
\* owner(s): clearTimeout, activePrinterConnection.write(INIT), resolve; then
\* the continuation of the awaiting handler answers success
SocketConnected(s) ==
  /\ ~crashed
  /\ UNCHANGED <<scan, enc, config, serial>>
  /\ sockets[s].state = "connecting"
  /\ LET o == sockets[s].owner
         socks1 == [sockets EXCEPT ![s].state = "established"]
         rq1 == ClearTimer(req, o)
     IN IF activePrinterConnection = None
        THEN \* TypeError thrown out of the 'connect' listener
             /\ crashed' = TRUE
             /\ sockets' = socks1
             /\ req' = rq1
             /\ UNCHANGED activePrinterConnection
        ELSE /\ sockets' = SocketWrite(socks1, activePrinterConnection, 0, INIT)
             /\ req' = IF rq1[o].phase = "awaiting" THEN Respond(rq1, o, Ok) ELSE rq1
             /\ UNCHANGED <<activePrinterConnection, crashed>>

\* the oldest accepted write of socket s completes: its callback gets no error
SocketWriteDone(s) ==
  /\ ~crashed
  /\ UNCHANGED <<scan, enc, config, serial>>
  /\ sockets[s].state = "established"
  /\ sockets[s].writeQ # <<>>
  /\ LET h == Head(sockets[s].writeQ)
     IN /\ sockets' = [sockets EXCEPT ![s].writeQ = Tail(@), ![s].wire = Append(@, h)]
        /\ req' = IF h.req # 0 /\ req[h.req].phase = "awaiting" THEN Respond(req, h.req, WriteCallback("")) ELSE req
  /\ UNCHANGED <<activePrinterConnection, crashed>>

\* socket s fails (connection refused, reset, write error): the socket is
\* destroyed with the error, pending write callbacks get it, and 'error' is
\* emitted to the listener of request owner(s): clearTimeout, reject(err)
SocketError(s) ==
  /\ ~crashed
  /\ UNCHANGED <<scan, enc, config, serial>>
  /\ IsOpen(sockets[s])
  /\ LET o == sockets[s].owner
         rq1 == ClearTimer(FailWrites(req, sockets[s].writeQ, MsgSocketError), o)
     IN /\ sockets' = [DestroySocket(sockets, s) EXCEPT ![s].errored = TRUE]
        /\ IF rq1[o].phase = "awaiting"
           THEN /\ activePrinterConnection' = ConnectCatch(activePrinterConnection)
                /\ req' = Respond(rq1, o, Fail(MsgSocketError))
           ELSE /\ req' = rq1
                /\ UNCHANGED activePrinterConnection
  /\ UNCHANGED crashed

\* the 5000 ms timer of connect request r fires: reject(new Error('Connection
\* timeout')), then the catch block of the handler
ConnectTimeout(r) ==
  /\ ~crashed
  /\ UNCHANGED <<scan, enc, config, serial>>
  /\ req[r].timer = "armed"
  /\ LET rq1 == [req EXCEPT ![r].timer = "fired"]
     IN IF rq1[r].phase = "awaiting"
        THEN /\ activePrinterConnection' = ConnectCatch(activePrinterConnection)
             /\ req' = Respond(rq1, r, Fail(MsgTimeout))
        ELSE /\ req' = rq1
             /\ UNCHANGED activePrinterConnection
  /\ UNCHANGED <<sockets, crashed>>

\* ---------------------------------------------------------- discovery scan
ProbeIds == 1..Len(scan.probes)

\* variant: the scan goes on as soon as one probe has settled
AnySettled(probes) == \E k \in 1..Len(probes) : probes[k].settled

\* Promise.allSettled(promises)
AllSettled(probes) == \A k \in 1..Len(probes) : probes[k].settled

\* variant: every result is collected
IsCollectedAll(p) == TRUE

\* `result.status === 'fulfilled' && result.value`
IsCollected(p) == p.settled /\ p.value # NullValue

\* variant: the results are collected from the last promise to the first
RECURSIVE CollectReversed(_)
CollectReversed(probes) ==
  IF probes = <<>> THEN <<>>
  ELSE CollectReversed(Tail(probes)) \o (IF IsCollected(Head(probes)) THEN <<Head(probes).value>> ELSE <<>>)

\* results.forEach(... printers.push(result.value)), in the order of promises
RECURSIVE Collect(_)
Collect(probes) ==
  IF probes = <<>> THEN <<>>
  ELSE (IF IsCollected(Head(probes)) THEN <<Head(probes).value>> ELSE <<>>) \o Collect(Tail(probes))

\* resolve(v) of probe p: only the first call settles the promise
Resolve(p, v, how) ==
  IF p.settled THEN [p EXCEPT !.resolves = @ + 1]
  ELSE [p EXCEPT !.settled = TRUE, !.value = v, !.resolves = @ + 1, !.outcome = how]

\* variant: clearTimeout is missing
KeepProbeTimer(t) == t

\* clearTimeout(timer)
ClearProbeTimer(t) == IF t = "armed" THEN "cleared" ELSE t

\* variant: the found printer's socket is left open
KeepProbeSocket(sock) == sock

\* socket.destroy() of a probe socket
DestroyProbeSocket(sock) ==
  IF IsOpen(sock) THEN [sock EXCEPT !.state = "destroyed", !.writeQ = <<>>] ELSE sock

\* the continuation of `await Promise.allSettled(promises)` and of
\* `await scanForPrinters(baseIP)`: the answer of GET /api/printer/discover
AfterSettle(sc) ==
  LET sc1 == IF sc.first = 0 /\ \E k \in 1..Len(sc.probes) : sc.probes[k].settled
             THEN [sc EXCEPT !.first = CHOOSE k \in 1..Len(sc.probes) : sc.probes[k].settled]
             ELSE sc
  IN IF sc1.phase = "running" /\ AllSettled(sc1.probes)
     THEN [sc1 EXCEPT !.phase = "done",
                      !.resp = [success |-> TRUE, error |-> "", printers |-> Collect(sc1.probes)]]
     ELSE sc1

\* GET /api/printer/discover: scanForPrinters launches every probe, then awaits
DiscoverRequest(q) ==
  /\ ~crashed
  /\ scan.phase = "idle"
  /\ LET baseIP == IF Truthy(q) THEN TemplateString(q) ELSE DefaultBaseIP
     IN scan' = AfterSettle([phase |-> "running", baseIP |-> baseIP,
                             probes |-> [k \in 1..Len(ScanTargets) |-> LaunchedProbe(baseIP, ScanTargets[k])],
                             resp |-> NoScanResponse, first |-> 0])
  /\ UNCHANGED <<activePrinterConnection, sockets, req, crashed, enc, config, serial>>

\* 'connect' of the socket of probe k: clearTimeout, socket.destroy(), resolve(record)
ProbeConnected(k) ==
  /\ ~crashed
  /\ k \in ProbeIds
  /\ scan.probes[k].sock.state = "connecting"
  /\ LET p == scan.probes[k]
         p1 == [p EXCEPT !.timer = ClearProbeTimer(@),
                         !.sock = DestroyProbeSocket([@ EXCEPT !.state = "established"])]
     IN scan' = AfterSettle([scan EXCEPT !.probes[k] = Resolve(p1, PrinterRecord(p.ip, p.port), "found")])
  /\ UNCHANGED <<activePrinterConnection, sockets, req, crashed, enc, config, serial>>

\* variant: the timer callback destroys the socket held by the global
\* instead of the probe's own socket
ProbeTimeoutGlobal(k) ==
  /\ ~crashed
  /\ k \in ProbeIds
  /\ scan.probes[k].timer = "armed"
  /\ LET p1 == [scan.probes[k] EXCEPT !.timer = "fired"]
     IN scan' = AfterSettle([scan EXCEPT !.probes[k] = Resolve(p1, NullValue, "timeout")])
  /\ sockets' = CloseExisting(sockets, activePrinterConnection)
  /\ UNCHANGED <<activePrinterConnection, req, crashed, enc, config, serial>>

\* the 500 ms timer of probe k fires: socket.destroy(), resolve(null)
ProbeTimeout(k) ==
  /\ ~crashed
  /\ k \in ProbeIds
  /\ scan.probes[k].timer = "armed"
  /\ LET p == scan.probes[k]
         p1 == [p EXCEPT !.timer = "fired", !.sock = DestroyProbeSocket(@)]
     IN scan' = AfterSettle([scan EXCEPT !.probes[k] = Resolve(p1, NullValue, "timeout")])
  /\ UNCHANGED <<activePrinterConnection, sockets, req, crashed, enc, config, serial>>

\* the socket of probe k fails and is destroyed with the error; the 'error'
\* listener: clearTimeout, resolve(null)
ProbeError(k) ==
  /\ ~crashed
  /\ k \in ProbeIds
  /\ IsOpen(scan.probes[k].sock)
  /\ LET p == scan.probes[k]
         p1 == [p EXCEPT !.timer = ClearProbeTimer(@),
                         !.sock = [DestroyProbeSocket(@) EXCEPT !.errored = TRUE]]
     IN scan' = AfterSettle([scan EXCEPT !.probes[k] = Resolve(p1, NullValue, "error")])
  /\ UNCHANGED <<activePrinterConnection, sockets, req, crashed, enc, config, serial>>

\* ------------------------------------------------------------ specifications
Next ==
  \/ \E body \in ConnectBodies : ConnectRequest(body)
  \/ DisconnectRequest
  \/ \E body \in PrintBodies : PrintRequest(body)
  \/ HealthRequest
  \/ \E s \in SockIds : SocketConnected(s)
  \/ \E s \in SockIds : SocketWriteDone(s)
  \/ \E s \in SockIds : SocketError(s)
  \/ \E r \in ReqIds : ConnectTimeout(r)

Spec == Init /\ [][Next]_vars

\* requests that do not overlap: a request arrives only when every earlier
\* one has been answered
NextSeq ==
  \/ \E body \in ConnectBodies : NoneAwaiting /\ ConnectRequest(body)
  \/ NoneAwaiting /\ DisconnectRequest
  \/ \E body \in PrintBodies : NoneAwaiting /\ PrintRequest(body)
  \/ NoneAwaiting /\ HealthRequest
  \/ \E s \in SockIds : SocketConnected(s)
  \/ \E s \in SockIds : SocketWriteDone(s)
  \/ \E s \in SockIds : SocketError(s)
  \/ \E r \in ReqIds : ConnectTimeout(r)

SpecSeq == Init /\ [][NextSeq]_vars

\* the discovery scan alone
NextScan ==
  \/ \E q \in BaseIPQueries : DiscoverRequest(q)
  \/ \E k \in 1..Len(ScanTargets) : ProbeConnected(k)
  \/ \E k \in 1..Len(ScanTargets) : ProbeTimeout(k)
  \/ \E k \in 1..Len(ScanTargets) : ProbeError(k)

SpecScan == Init /\ [][NextScan]_vars

\* timers fire: a probe timer that stays armed eventually fires
SpecScanFair == SpecScan /\ \A k \in 1..Len(ScanTargets) : WF_vars(ProbeTimeout(k))

\* requests of the run that accompanies a scan
MaxScanRequests == 1
CanArrive == Cardinality({r \in ReqIds : req[r].phase # "idle"}) < MaxScanRequests

\* a discovery scan interleaved with connect, disconnect, print and health
NextScanReg ==
  \/ \E body \in ConnectBodies : CanArrive /\ ConnectRequest(body)
  \/ CanArrive /\ DisconnectRequest
  \/ \E body \in PrintBodies : CanArrive /\ PrintRequest(body)
  \/ CanArrive /\ HealthRequest
  \/ \E s \in SockIds : SocketConnected(s)
  \/ \E s \in SockIds : SocketWriteDone(s)
  \/ \E s \in SockIds : SocketError(s)
  \/ \E r \in ReqIds : ConnectTimeout(r)
  \/ \E q \in BaseIPQueries : DiscoverRequest(q)
  \/ \E k \in 1..Len(ScanTargets) : ProbeConnected(k)
  \/ \E k \in 1..Len(ScanTargets) : ProbeTimeout(k)
  \/ \E k \in 1..Len(ScanTargets) : ProbeError(k)

SpecScanReg == Init /\ [][NextScanReg]_vars

\* connect and disconnect requests alone, in a longer run
MaxConnRequests == 4

InitConn ==
  /\ activePrinterConnection = None
  /\ sockets = [s \in SockIds |-> FreshSocket]
  /\ req = [r \in 1..MaxConnRequests |-> IdleRequest]
  /\ crashed = FALSE
  /\ scan = IdleScan
  /\ serial = IdleSerial
  /\ enc = IdleEnc
  /\ config = IdleConfig

NextConn ==
  \/ \E body \in ConnectBodies : ConnectRequest(body)
  \/ DisconnectRequest
  \/ \E s \in SockIds : SocketConnected(s)
  \/ \E s \in SockIds : SocketWriteDone(s)
  \/ \E s \in SockIds : SocketError(s)
  \/ \E r \in ReqIds : ConnectTimeout(r)

SpecConn == InitConn /\ [][NextConn]_vars

\* ---------------------------------------------------------- print encoder
serverVars == <<activePrinterConnection, sockets, req, crashed, scan>>

\* the try block of the print handler builds the buffer of the job
EncodeJob ==
  /\ ~enc.done
  /\ enc' = [enc EXCEPT !.done = TRUE, !.out = BuildPrintJob(enc.body)]
  /\ UNCHANGED <<serverVars, config, serial>>

InitEncode ==
  /\ InitServer
  /\ config = IdleConfig
  /\ \E body \in EncodeBodies : enc = [IdleEnc EXCEPT !.body = body]

NextEncode == EncodeJob

SpecEncode == InitEncode /\ [][NextEncode]_vars

\* --------------------------------------------------- client configuration
\* a caller reads getApiBaseUrl()
ReadApiBaseUrl ==
  /\ config' = [config EXCEPT !.shown = GetApiBaseUrl(config), !.last = "get"]
  /\ UNCHANGED <<serverVars, enc, serial>>

\* setApiBaseUrl(url)
SetApiBaseUrl(url) ==
  /\ config' = [config EXCEPT !.storage = StoreUrl(@, url), !.last = "set"]
  /\ UNCHANGED <<serverVars, enc, serial>>

\* updateApiBaseUrl(url): apiBaseUrl = url; setApiBaseUrl(url)
UpdateApiBaseUrl(url) ==
  /\ config' = [config EXCEPT !.apiBaseUrl = url.v, !.storage = StoreUrl(@, url), !.last = "update"]
  /\ UNCHANGED <<serverVars, enc, serial>>

\* clearApiBaseUrl()
ClearApiBaseUrl ==
  /\ config' = [config EXCEPT !.storage = RemoveUrl(@), !.last = "clear"]
  /\ UNCHANGED <<serverVars, enc, serial>>

InitConfig ==
  /\ InitServer
  /\ enc = IdleEnc
  /\ \E vite \in ViteUrls, prod \in BOOLEAN, loc \in Locations, stored \in StoredUrls :
       config = LoadedConfig(vite, prod, loc, stored)

NextConfig ==
  \/ ReadApiBaseUrl
  \/ \E url \in UrlInputs : SetApiBaseUrl(url)
  \/ \E url \in UrlInputs : UpdateApiBaseUrl(url)
  \/ ClearApiBaseUrl

SpecConfig == InitConfig /\ [][NextConfig]_vars

\* ------------------------------------------------- client, Web Serial path
\* writer.write(data) by call c (0: connectToSerialPrinter): the stream
\* accepts the chunk behind the chunks it already holds
WriterWrite(q, c, data) == Append(q, [call |-> c, data |-> data])

\* the next call of printText
NextCall == CHOOSE c \in 1..MaxPrintCalls :
              serial.calls[c].phase = "idle" /\ \A b \in 1..MaxPrintCalls : b < c => serial.calls[b].phase # "idle"

\* connectToSerialPrinter up to `await writer.write(ESC_POS.INIT)`; ok: the
\* user picked a port and it opened, else the catch block
ConnectToSerialPrinter(ok) ==
  /\ serial.connect = "idle"
  /\ serial' = IF ok
               THEN [serial EXCEPT !.connect = "awaiting", !.writer = "open", !.error = "",
                                   !.queue = WriterWrite(@, 0, INIT)]
               ELSE [serial EXCEPT !.error = MsgSerialConnect, !.connected = FALSE, !.writer = "none"]
  /\ UNCHANGED <<serverVars, enc, config>>

\* handleSaveSettings: setThermalPrinterSettings
SaveSettings(customText) ==
  /\ serial' = [serial EXCEPT !.customText = customText]
  /\ UNCHANGED <<serverVars, enc, config>>

\* printText(text) up to its first `await writer.write`
PrintText(text, timestamp) ==
  /\ \E c \in 1..MaxPrintCalls : serial.calls[c].phase = "idle"
  /\ LET c == NextCall
         chunks == SerialChunks(text, serial.customText, timestamp)
     IN serial' =
          IF ~serial.connected
          THEN [serial EXCEPT !.error = MsgNotConnected,
                              !.calls[c] = [IdleCall EXCEPT !.phase = "done", !.text = text, !.error = MsgNotConnected]]
          ELSE IF serial.writer = "open"
          THEN [serial EXCEPT !.queue = WriterWrite(@, c, chunks[1]),
                              !.calls[c] = [phase |-> "awaiting", text |-> text, chunks |-> chunks,
                                            next |-> 2, error |-> ""]]
          ELSE \* the write on the errored stream rejects: the catch block
               [serial EXCEPT !.error = MsgPrintFailed,
                              !.calls[c] = [IdleCall EXCEPT !.phase = "done", !.text = text, !.chunks = chunks,
                                                            !.next = 1, !.error = MsgPrintFailed]]
  /\ UNCHANGED <<serverVars, enc, config>>

\* the oldest accepted chunk is written to the port and its write promise
\* resolves: the awaiting function goes on to its next write, or to its end
SerialWriteDone ==
  /\ serial.writer = "open"
  /\ serial.queue # <<>>
  /\ LET h == Head(serial.queue)
         s1 == [serial EXCEPT !.queue = Tail(@), !.sent = Append(@, h)]
     IN serial' =
          IF h.call = 0
          THEN [s1 EXCEPT !.connect = "done", !.connected = TRUE, !.error = ""]
          ELSE LET call == s1.calls[h.call]
               IN IF call.next <= Len(call.chunks)
                  THEN [s1 EXCEPT !.queue = WriterWrite(@, h.call, call.chunks[call.next]),
                                  !.calls[h.call].next = @ + 1]
                  ELSE [s1 EXCEPT !.calls[h.call].phase = "done",
                                  !.lastPrinted = call.text, !.error = ""]
  /\ UNCHANGED <<serverVars, enc, config>>

\* the port fails (unplugged, I/O error): the stream errors and every pending
\* write rejects; the catch block of each awaiting function runs
SerialStreamError ==
  /\ serial.writer = "open"
  /\ serial' =
       IF serial.connect = "awaiting"
       THEN [serial EXCEPT !.connect = "idle", !.connected = FALSE, !.writer = "none",
                           !.queue = <<>>, !.error = MsgSerialConnect]
       ELSE [serial EXCEPT !.writer = "errored", !.queue = <<>>,
                           !.error = IF \E c \in 1..MaxPrintCalls : serial.calls[c].phase = "awaiting"
                                     THEN MsgPrintFailed ELSE @,
                           !.calls = [c \in 1..MaxPrintCalls |->
                                        IF serial.calls[c].phase = "awaiting"
                                        THEN [serial.calls[c] EXCEPT !.phase = "done", !.error = MsgPrintFailed]
                                        ELSE serial.calls[c]]]
  /\ UNCHANGED <<serverVars, enc, config>>

NextSerial ==
  \/ \E ok \in BOOLEAN : ConnectToSerialPrinter(ok)
  \/ \E c \in SavedCustomTexts : SaveSettings(c)
  \/ \E text \in ButtonNames, timestamp \in LocaleTimes : PrintText(text, timestamp)
  \/ SerialWriteDone
  \/ SerialStreamError

SpecSerial == Init /\ [][NextSerial]_vars

\* ------------------------------------------------------------------ claims
ConnectReqs == {r \in ReqIds : req[r].kind = "connect" /\ req[r].sock # 0}

\* C1: over non-overlapping requests, the number of sockets created and not
\* yet destroyed is at most 1 in every reachable state.
C1_AtMostOneOpenSocket == Cardinality(OpenSockets(sockets)) <= 1

\* C2: when an awaiting connect request fails (socket error or timeout), its
\* response is {success:false, error:<message of the cause>}, and with that
\* response the active connection is None and health reports connected:false.
C2_FailedConnectResetsActive ==
  [][\A r \in ReqIds :
       (req[r].kind = "connect" /\ req[r].phase = "awaiting"
        /\ req'[r].phase = "done" /\ ~req'[r].resp.success)
       => /\ req'[r].resp = Fail(IF req'[r].timer = "fired" THEN MsgTimeout ELSE MsgSocketError)
          /\ activePrinterConnection' = None
          /\ ~HealthConnected(activePrinterConnection')]_vars

\* a connect request that replaced an active connection has timed out, and
\* the registry is back to None
C2_Witness ==
  \E r \in ReqIds :
    /\ req[r].kind = "connect" /\ req[r].phase = "done"
    /\ req[r].resp = Fail(MsgTimeout)
    /\ req[r].prev # None
    /\ activePrinterConnection = None

\* C3: a connect request whose timer fired has failed with 'Connection
\* timeout' and the socket of that attempt is destroyed.
C3_TimeoutDestroysSocket ==
  \A r \in ConnectReqs :
    req[r].timer = "fired"
    => /\ req[r].resp = Fail(MsgTimeout)
       /\ sockets[req[r].sock].state = "destroyed"

\* C4: once two connect requests whose handling overlapped have both
\* responded, every non-destroyed socket is the active connection (so there
\* is at most one).
C4_NoLeakAfterOverlap ==
  \A r1, r2 \in ConnectReqs :
    (r1 \in req[r2].overlaps /\ req[r1].phase = "done" /\ req[r2].phase = "done")
    => OpenSockets(sockets) \subseteq {activePrinterConnection}

\* C5: no exception escapes a request handler or a socket callback.
C5_NoEscapedException == ~crashed

\* C6: if health reports connected:true, the active socket is established,
\* not connecting, destroyed or errored.
C6_ConnectedMeansEstablished ==
  HealthConnected(activePrinterConnection)
  => /\ activePrinterConnection # None
     /\ sockets[activePrinterConnection].state = "established"
     /\ ~sockets[activePrinterConnection].errored

\* C7: while a connect request awaits its TCP connect, the registry does not
\* hold its not-yet-established socket and health does not report connected.
C7_NotActiveWhileConnecting ==
  \A r \in ConnectReqs :
    (req[r].phase = "awaiting" /\ sockets[req[r].sock].state = "connecting")
    => /\ activePrinterConnection # req[r].sock
       /\ ~HealthConnected(activePrinterConnection)

\* C8: when the established active socket reports an error (a failed write
\* included), the active connection becomes None in the same step.
C8_ErrorWhileConnectedResets ==
  [][\A s \in SockIds :
       (activePrinterConnection = s /\ sockets[s].state = "established"
        /\ sockets'[s].errored)
       => activePrinterConnection' = None]_vars

\* C9: a connect request that arrives while a connection is active destroys
\* the previous socket before it creates and connects the new one.
C9_PreviousReleasedFirst ==
  \A r \in ConnectReqs :
    req[r].prev # None => req[r].prev \notin sockets[req[r].sock].openAtCreate

\* a connect request has replaced an active connection that was open until
\* the request destroyed it
C9_Witness ==
  \E r \in ConnectReqs :
    /\ req[r].prev # None
    /\ sockets[req[r].prev].state = "destroyed"
    /\ ~sockets[req[r].prev].errored
    /\ sockets[req[r].sock].state = "established"

\* C10: a print request received while the active connection is None is
\* answered {success:false, error:'Printer not connected'} whatever its body,
\* throws nothing, writes to no socket and leaves the state None.
C10_PrintWhenNone ==
  [][\A r \in ReqIds :
       (req[r].phase = "idle" /\ req'[r].kind = "print" /\ activePrinterConnection = None)
       => /\ req'[r].phase = "done"
          /\ req'[r].resp = Fail(MsgNotConnected)
          /\ sockets' = sockets
          /\ activePrinterConnection' = None
          /\ ~crashed']_vars

\* print requests with a complete body and with a body lacking text have
\* both been answered 'Printer not connected' after a disconnect
C10_Witness ==
  /\ activePrinterConnection = None
  /\ \E r1, r2 \in ReqIds :
       /\ req[r1].kind = "print" /\ req[r1].resp = Fail(MsgNotConnected)
       /\ req[r1].body = EmptyBody
       /\ req[r2].kind = "print" /\ req[r2].resp = Fail(MsgNotConnected)
       /\ ~BuildPrintJob(req[r2].body).threw

PrintReqs == {r \in ReqIds : req[r].kind = "print"}

\* C11: disconnect always answers success and leaves the active connection
\* None; with no active connection (as directly after a disconnect) it changes
\* nothing and destroys no socket.
C11_DisconnectIdempotent ==
  [][\A r \in ReqIds :
       (req[r].phase = "idle" /\ req'[r].kind = "disconnect")
       => /\ req'[r].phase = "done" /\ req'[r].resp = Ok
          /\ activePrinterConnection' = None
          /\ activePrinterConnection = None => sockets' = sockets
          /\ \A s \in SockIds : s # activePrinterConnection => sockets'[s] = sockets[s]]_vars

\* a disconnect that closed an established connection was directly followed
\* by a second disconnect, which found nothing to close
C11_Witness ==
  \E r \in ReqIds :
    /\ r + 1 \in ReqIds
    /\ req[r].kind = "disconnect" /\ req[r].prev # None /\ req[r].resp = Ok
    /\ req[r + 1].kind = "disconnect" /\ req[r + 1].prev = None /\ req[r + 1].resp = Ok
    /\ sockets[req[r].prev].state = "destroyed" /\ ~sockets[req[r].prev].errored
    /\ activePrinterConnection = None

\* C12: a print request answers success only in the step in which the write
\* callback of its whole job buffer fires without error; when the callback
\* gets an error the answer is success:false with that error's message.
C12_PrintAnswersAfterWrite ==
  [][\A r \in ReqIds :
       /\ (req[r].phase = "idle" /\ req'[r].kind = "print" /\ req'[r].phase = "done")
          => ~req'[r].resp.success
       /\ (req[r].kind = "print" /\ req[r].phase = "awaiting" /\ req'[r].phase = "done")
          => LET s == req[r].sock
                 mine == [req |-> r, data |-> BuildPrintJob(req[r].body).buf]
             IN IF sockets'[s].wire # sockets[s].wire
                THEN /\ Head(sockets[s].writeQ) = mine
                     /\ sockets'[s].wire = Append(sockets[s].wire, mine)
                     /\ req'[r].resp = Ok
                ELSE /\ sockets'[s].state = "destroyed"
                     /\ req'[r].resp = Fail(IF sockets'[s].errored THEN MsgSocketError ELSE MsgClosed)]_vars

\* one print request was answered success after its buffer went out, another
\* was answered with the error of its failed write
C12_Witness ==
  \E r1, r2 \in PrintReqs :
    /\ req[r1].resp = Ok
    /\ \E i \in 1..Len(sockets[req[r1].sock].wire) : sockets[req[r1].sock].wire[i].req = r1
    /\ req[r2].sock # 0 /\ req[r2].resp = Fail(MsgSocketError)

\* C13: a connect request that answers success has, in the same step and
\* before answering, written INIT to the socket it has just connected.
C13_InitOnOwnSocket ==
  [][\A r \in ReqIds :
       (req[r].kind = "connect" /\ req[r].phase = "awaiting"
        /\ req'[r].phase = "done" /\ req'[r].resp.success)
       => \E i \in 1..Len(sockets'[req[r].sock].writeQ) :
            sockets'[req[r].sock].writeQ[i] = [req |-> 0, data |-> INIT]]_vars

\* C14: a connect request with both fields is answered at the latest when
\* its 5-second timer fires: once its timer is no longer pending (fired, or
\* cleared by a socket event) the request has its response.
C14_AnsweredByTimer ==
  \A r \in ConnectReqs : req[r].timer # "armed" => req[r].phase = "done"

\* ------------------------------------------------- claims on the discovery
Outcomes == {scan.probes[k].outcome : k \in ProbeIds}
CandidatePorts == {9100, 515}

\* C15: the scan returns only after every probe has settled, and its answer
\* is a success carrying a list, however many probes timed out or errored.
C15_ScanWaitsForAll ==
  /\ scan.phase = "done"
     => /\ \A k \in ProbeIds : scan.probes[k].settled
        /\ scan.resp.success /\ scan.resp.error = ""
  /\ scan.phase = "running" => scan.resp = NoScanResponse

\* every probe timed out or errored and the scan answered an empty list
C15_Witness ==
  /\ scan.phase = "done"
  /\ Outcomes = {"timeout", "error"}
  /\ scan.resp = [success |-> TRUE, error |-> "", printers |-> <<>>]

\* C16: every entry of a completed scan has a candidate port, an address
\* <baseIP>.<n> with n a scanned host suffix, and is the record of a probe
\* whose connect came before its timer fired; a probe that timed out or
\* errored has no entry.
C16_EntriesAreFoundProbes ==
  scan.phase = "done"
  => LET found == scan.resp.printers
     IN /\ \A i \in 1..Len(found) :
             /\ found[i].port \in CandidatePorts
             /\ \E n \in 1..MaxHost : found[i].ipAddress = scan.baseIP \o <<46>> \o Digits(n)
             /\ \E k \in ProbeIds :
                  /\ scan.probes[k].outcome = "found" /\ scan.probes[k].timer = "cleared"
                  /\ found[i].ipAddress = scan.probes[k].ip /\ found[i].port = scan.probes[k].port
        /\ \A k \in ProbeIds :
             scan.probes[k].outcome \in {"timeout", "error"}
             => \A i \in 1..Len(found) :
                  ~(found[i].ipAddress = scan.probes[k].ip /\ found[i].port = scan.probes[k].port)

\* a completed scan with found, timed-out and errored probes
C16_Witness ==
  /\ scan.phase = "done"
  /\ Outcomes = {"found", "timeout", "error"}
  /\ Len(scan.resp.printers) >= 1

\* C17: a scan launches exactly one probe for each (host suffix, candidate
\* port), all of them before it waits, and every probe whose connect
\* completed in time is in the returned list.
C17_OneProbePerTarget ==
  /\ scan.phase # "idle"
     => /\ \A n \in 1..MaxHost, port \in CandidatePorts :
             Cardinality({k \in ProbeIds :
                            /\ scan.probes[k].ip = scan.baseIP \o <<46>> \o Digits(n)
                            /\ scan.probes[k].port = port
                            /\ scan.probes[k].sock.state # "unused"}) = 1
        /\ Len(scan.probes) = MaxHost * Cardinality(CandidatePorts)
  /\ scan.phase = "done"
     => \A k \in ProbeIds :
          scan.probes[k].outcome = "found"
          => \E i \in 1..Len(scan.resp.printers) :
               scan.resp.printers[i] = PrinterRecord(scan.probes[k].ip, scan.probes[k].port)

\* every probe of a completed scan found a printer
C17_Witness ==
  /\ scan.phase = "done"
  /\ Outcomes = {"found"}
  /\ Len(scan.resp.printers) = MaxHost * Cardinality(CandidatePorts)

C19_ProbeSocketsClosed ==
  /\ \A k \in ProbeIds :
       scan.probes[k].outcome \in {"found", "timeout"}
       => /\ scan.probes[k].sock.state = "destroyed"
          /\ scan.probes[k].sock.writeQ = <<>> /\ scan.probes[k].sock.wire = <<>>
  /\ scan.phase = "done" => \A k \in ProbeIds : ~IsOpen(scan.probes[k].sock)

\* a returned scan with found and timed-out probes, all sockets destroyed
C19_Witness ==
  /\ scan.phase = "done"
  /\ Outcomes = {"found", "timeout"}
  /\ \A k \in ProbeIds : scan.probes[k].sock.state = "destroyed"

\* C20: every probe settles exactly once, with a printer record or with
\* 'not present', no later than its timer; timers being fair, a running scan
\* eventually returns.
C20_ProbesSettleOnce ==
  /\ [](\A k \in ProbeIds :
          /\ scan.probes[k].resolves <= 1
          /\ scan.probes[k].settled <=> scan.probes[k].resolves = 1
          /\ scan.probes[k].timer # "armed" => scan.probes[k].settled
          /\ scan.probes[k].settled
             => scan.probes[k].value \in {NullValue, PrinterRecord(scan.probes[k].ip, scan.probes[k].port)})
  /\ (scan.phase = "running" ~> scan.phase = "done")

\* a returned scan in which every probe settled once, one of them by its
\* timer, one by an error and one by its connect
C20_Witness ==
  /\ scan.phase = "done"
  /\ \A k \in ProbeIds : scan.probes[k].resolves = 1
  /\ \E k1, k2, k3 \in ProbeIds :
       /\ scan.probes[k1].timer = "fired" /\ scan.probes[k1].value = NullValue
       /\ scan.probes[k2].sock.errored /\ scan.probes[k2].value = NullValue
       /\ scan.probes[k3].outcome = "found" /\ scan.probes[k3].value # NullValue

\* ---------------------------------------------------- claims on the encoder
\* a string with a character that is not white space
NonBlank(x) == x.t = "string" /\ \E i \in 1..Len(x.v) : x.v[i] \notin {9, 10, 11, 12, 13, 32, 160}

\* a job as the data model types it: text a string, customText a string or absent
TypedJob(body) == body.text.t = "string" /\ body.customText.t \in {"string", "undefined"}

\* pat occurs in buf
Contains(buf, pat) ==
  \E i \in 1..(Len(buf) - Len(pat) + 1) : SubSeq(buf, i, i + Len(pat) - 1) = pat

\* C21: the bytes of a job are, in this order: the brand header (center,
\* large, bold), the custom text (center, normal, bold) iff customText is not
\* blank, the text (center, large, bold), the timestamp line (normal, bold
\* off), and the cut 1D 56 42 00 last; each text is followed by line feeds 0A.
C21_EncodedLayout ==
  (enc.done /\ TypedJob(enc.body))
  => /\ ~enc.out.threw
     /\ enc.out.buf =
          <<27, 97, 1>> \o <<27, 33, 48>> \o <<27, 69, 1>> \o BrandHeader \o <<27, 69, 0>> \o <<10, 10>>
          \o (IF NonBlank(enc.body.customText)
              THEN <<27, 97, 1>> \o <<27, 33, 0>> \o <<27, 69, 1>> \o Utf8(enc.body.customText.v)
                   \o <<27, 69, 0>> \o <<10, 10>>
              ELSE <<>>)
          \o <<27, 97, 1>> \o <<27, 33, 48>> \o <<27, 69, 1>> \o Utf8(enc.body.text.v) \o <<10, 10>>
          \o <<27, 33, 0>> \o <<27, 69, 0>> \o PrintedPrefix \o Utf8(TemplateString(enc.body.timestamp))
          \o <<10, 10, 10>>
          \o <<29, 86, 66, 0>>

\* a job with a custom text, a two-byte character in its text and a
\* timestamp has been encoded
C21_Witness ==
  /\ enc.done /\ ~enc.out.threw
  /\ enc.body.customText = Str(<<32, 72, 105, 32>>)
  /\ enc.body.text = Str(<<241>>)
  /\ enc.body.timestamp = Str(<<50, 48, 50, 52>>)
  /\ Contains(enc.out.buf, <<195, 177, 10, 10>>)

\* C22: a job whose customText is absent, empty or white space only is
\* encoded exactly as the same job without customText.
C22_BlankCustomTextOmitted ==
  (enc.done /\ enc.body.customText.t \in {"string", "undefined"} /\ ~NonBlank(enc.body.customText))
  => enc.out = BuildPrintJob([enc.body EXCEPT !.customText = Undefined])

\* jobs with customText "   " and with customText tab + no-break space
\* have been encoded
C22_Witness ==
  /\ enc.done /\ ~enc.out.threw
  /\ enc.body.customText \in {Str(<<32, 32, 32>>), Str(<<9, 160>>)}
  /\ Len(enc.out.buf) > 0

\* C23: the buffer of a job whose timestamp is absent or blank contains no
\* timestamp line.
C23_NoTimestampLine ==
  (enc.done /\ ~enc.out.threw /\ ~NonBlank(enc.body.timestamp) /\ enc.body.timestamp.t # "number")
  => ~Contains(enc.out.buf, PrintedPrefix)

\* ------------------------------------------------ claims on the handlers
\* the writes a socket has accepted, completed ones first
Accepted(s) == sockets[s].wire \o sockets[s].writeQ
JobWrites == {<<s, i>> \in SockIds \X (1..(2 * MaxRequests)) : i <= Len(Accepted(s)) /\ Accepted(s)[i].req # 0}
JobOf(r) == <<req[r].body.text, req[r].body.customText, req[r].body.timestamp>>

C26_PrintWithoutText ==
  [][\A r \in ReqIds :
       (req[r].phase = "idle" /\ req'[r].kind = "print"
        /\ req'[r].body.text = Undefined /\ activePrinterConnection # None)
       => /\ req'[r].phase = "done"
          /\ ~req'[r].resp.success /\ req'[r].resp.error # ""
          /\ sockets' = sockets
          /\ activePrinterConnection' = activePrinterConnection]_vars

\* a print request without text was refused on an established connection
C26_Witness ==
  \E r \in ReqIds :
    /\ req[r].kind = "print" /\ req[r].body.text = Undefined
    /\ req[r].resp = Fail(MsgTypeError)
    /\ req[r].prev # None /\ activePrinterConnection = req[r].prev
    /\ sockets[req[r].prev].state = "established"

\* C27: a health query changes neither the active connection nor any
\* socket, and its connected flag is (active connection is not None).
C27_HealthIsPure ==
  [][\A r \in ReqIds :
       (req[r].phase = "idle" /\ req'[r].kind = "health")
       => /\ req'[r].phase = "done"
          /\ req'[r].resp = [success |-> TRUE, error |-> "", connected |-> activePrinterConnection # None]
          /\ activePrinterConnection' = activePrinterConnection
          /\ sockets' = sockets]_vars

\* health was asked with a connection and, after a disconnect, without one
C27_Witness ==
  \E r1, r2 \in ReqIds :
    /\ req[r1].kind = "health" /\ req[r1].resp.connected /\ req[r1].prev # None
    /\ req[r2].kind = "health" /\ req[r2].phase = "done" /\ ~req[r2].resp.connected

C29_ClearRestoresDefault ==
  config.last = "clear"
  => /\ GetApiBaseUrl(config) = GetDefaultApiUrl(config)
     /\ ~HasCustomApiUrl(config)
     /\ config.storage = Undefined

\* clearApiBaseUrl() ran after updateApiBaseUrl(" http://a ") had stored a URL
C29_Witness ==
  /\ config.last = "clear"
  /\ config.apiBaseUrl = <<32>> \o UrlA \o <<32>>
  /\ config.storage = Undefined
  /\ GetApiBaseUrl(config) # UrlA

\* C30: each print job is handed to the transport in one write carrying its
\* whole buffer, and on a socket the jobs follow each other in the order in
\* which their requests were handled.
C30_JobsWholeAndInOrder ==
  /\ \A w \in JobWrites :
       LET e == Accepted(w[1])[w[2]]
       IN /\ e.data = BuildPrintJob(req[e.req].body).buf
          /\ \A v \in JobWrites : Accepted(v[1])[v[2]].req = e.req => v = w
  /\ \A s \in SockIds : \A i, j \in 1..Len(Accepted(s)) :
       (i < j /\ Accepted(s)[i].req # 0 /\ Accepted(s)[j].req # 0)
       => Accepted(s)[i].req < Accepted(s)[j].req

\* two different jobs went out on one connection, in the order of their
\* requests, and both requests were answered success
C30_Witness ==
  \E s \in SockIds : \E i, j \in 1..Len(sockets[s].wire) :
    /\ i < j
    /\ sockets[s].wire[i].req # 0 /\ sockets[s].wire[j].req # 0
    /\ sockets[s].wire[i].data # sockets[s].wire[j].data
    /\ req[sockets[s].wire[i].req].resp = Ok /\ req[sockets[s].wire[j].req].resp = Ok

\* ------------------------------------- claims on overlapping requests (2)
\* C31: once a connect request has answered success and no later connect or
\* disconnect request has been received, activePrinterConnection is the
\* socket of that request; the timeout or error of an earlier, overlapped
\* connect request does not reset it.
C31_SuccessfulConnectStaysActive ==
  \A r \in ReqIds :
    (/\ req[r].kind = "connect" /\ req[r].phase = "done" /\ req[r].resp.success
     /\ \A q \in ReqIds : q > r => req[q].kind \notin {"connect", "disconnect"})
    => activePrinterConnection = req[r].sock

\* C32: on every socket INIT is the first write: no bytes of a print job are
\* written to, or queued on, a socket before that socket's INIT.
C32_InitIsFirstWrite ==
  \A s \in SockIds :
    Accepted(s) # <<>> => Accepted(s)[1].req = 0 /\ Accepted(s)[1].data = INIT

\* C33: if a disconnect request is handled while a connect request is still
\* awaiting its TCP connect, that connect request never answers success, and
\* activePrinterConnection stays None until a later connect request arrives.
C33_DisconnectCancelsPendingConnect ==
  \A d \in ReqIds :
    (req[d].kind = "disconnect" /\ req[d].phase = "done")
    => /\ \A c \in req[d].overlaps : ~(req[c].phase = "done" /\ req[c].resp.success)
       /\ (req[d].overlaps # {} /\ \A q \in ReqIds : q > d => req[q].kind # "connect")
          => activePrinterConnection = None

\* ------------------------------------------------- claims on the scan (2)
\* C34: the list a scan returns is ordered by probe launch order (host
\* suffix ascending and, for one host, port 9100 before port 515), whatever
\* the order in which the probes completed, and holds each (ipAddress, port)
\* pair at most once.
C34_ListInLaunchOrder ==
  scan.phase = "done"
  => LET L == scan.resp.printers
     IN /\ \A i, j \in 1..Len(L) :
             i < j => \E h1, h2 \in 1..MaxHost :
                        /\ L[i].ipAddress = scan.baseIP \o <<46>> \o Digits(h1)
                        /\ L[j].ipAddress = scan.baseIP \o <<46>> \o Digits(h2)
                        /\ \/ h1 < h2
                           \/ h1 = h2 /\ L[i].port = 9100 /\ L[j].port = 515
        /\ \A i, j \in 1..Len(L) :
             (L[i].ipAddress = L[j].ipAddress /\ L[i].port = L[j].port) => i = j

\* the probe launched last completed first, both it and the first probe
\* found a printer, and the list starts with the first probe's printer
C34_Witness ==
  /\ scan.phase = "done"
  /\ scan.first = Len(scan.probes)
  /\ Len(scan.resp.printers) >= 2
  /\ scan.probes[1].outcome = "found"
  /\ scan.resp.printers[1].ipAddress = scan.probes[1].ip
  /\ scan.resp.printers[1].port = 9100
  /\ scan.resp.printers[Len(scan.resp.printers)].ipAddress = scan.probes[Len(scan.probes)].ip
  /\ scan.resp.printers[Len(scan.resp.printers)].port = 515

\* ------------------------------------------------ claims on the encoder (2)
\* the style a printer is in: alignment (ESC a n), font (ESC ! n), bold (ESC E n)
PrinterStyles == [align : {0, 1, 2}, font : {0, 48}, bold : {0, 1}]

\* positions of buf where a command starts: ESC (3 bytes) or GS (4 bytes)
CommandStarts(buf) == {i \in 1..Len(buf) : buf[i] \in {27, 29}}
CommandLen(buf, i) == IF buf[i] = 27 THEN 3 ELSE 4

\* position j of buf lies in a command
InCommand(buf, j) ==
  \E i \in CommandStarts(buf) : i <= j /\ j < i + CommandLen(buf, i)

\* no operand byte of a command is itself ESC or GS, and no command is cut
\* short: reading buf from left to right finds exactly CommandStarts(buf)
WellFormed(buf) ==
  \A i \in CommandStarts(buf) :
    /\ i + CommandLen(buf, i) - 1 <= Len(buf)
    /\ \A j \in (i + 1)..(i + CommandLen(buf, i) - 1) : buf[j] \notin {27, 29}

\* the operand n of the last command ESC c n before position j, or init
\* when there is none
LastSet(buf, c, j, init) ==
  LET S == {i \in CommandStarts(buf) : i < j /\ buf[i] = 27 /\ buf[i + 1] = c}
  IN IF S = {} THEN init
     ELSE buf[(CHOOSE i \in S : \A k \in S : k <= i) + 2]

\* the style in effect at position j for a printer that was in style st
StyleAt(buf, st, j) ==
  [align |-> LastSet(buf, 97, j, st.align),
   font |-> LastSet(buf, 33, j, st.font),
   bold |-> LastSet(buf, 69, j, st.bold)]

\* positions of the text bytes (line feeds print nothing) and of the cuts
TextPositions(buf) == {j \in 1..Len(buf) : ~InCommand(buf, j) /\ buf[j] # 10}
CutPositions(buf) == {i \in CommandStarts(buf) : buf[i] = 29}

\* what a printer that is in style st makes of buf: each text byte and each
\* cut, with the style it is printed in
Printed(buf, st) ==
  [j \in TextPositions(buf) \cup CutPositions(buf) |->
     [what |-> IF j \in CutPositions(buf) THEN "cut" ELSE "text",
      byte |-> buf[j],
      style |-> StyleAt(buf, st, j)]]

\* C35: an encoded job sets alignment, font size and bold before its first
\* text byte, and reaches the cut with bold off and normal font: what the
\* printer makes of the job does not depend on the style it was left in.
C35_StyleSelfContained ==
  (enc.done /\ ~enc.out.threw)
  => LET buf == enc.out.buf
         cut == Len(buf) - 3
     IN /\ WellFormed(buf)
        /\ TextPositions(buf) # {}
        /\ \A st \in PrinterStyles :
             Printed(buf, st) = Printed(buf, [align |-> 0, font |-> 0, bold |-> 0])
        /\ CutPositions(buf) = {cut}
        /\ \A st \in PrinterStyles :
             /\ StyleAt(buf, st, cut).bold = 0
             /\ StyleAt(buf, st, cut).font = 0

\* a job with custom text has been encoded: for a printer left left-aligned,
\* normal and not bold its first byte is printed centered, large and bold,
\* and its custom text centered, normal and bold
C35_Witness ==
  /\ enc.done /\ ~enc.out.threw
  /\ enc.body.customText = Str(<<32, 72, 105, 32>>)
  /\ enc.body.text = Str(<<68, 111, 110, 97>>)
  /\ LET buf == enc.out.buf
         P == Printed(buf, [align |-> 0, font |-> 0, bold |-> 0])
     IN /\ P[10] = [what |-> "text", byte |-> 72, style |-> [align |-> 1, font |-> 48, bold |-> 1]]
        /\ \A j \in TextPositions(buf) : j >= 10
        /\ \E j \in TextPositions(buf) : P[j].style = [align |-> 1, font |-> 0, bold |-> 1]
        /\ P[Len(buf) - 3].what = "cut"

\* ------------------------------------------- claims on the Web Serial path
\* the writes the serial writer has accepted, in order
Handed == serial.sent \o serial.queue

\* C36: the chunks of one printText call reach the serial writer
\* contiguously: between two chunks of a call there is no chunk of another.
C36_SerialJobsContiguous ==
  \A i, j, k \in 1..Len(Handed) :
    (i < j /\ j < k /\ Handed[i].call = Handed[k].call) => Handed[j].call = Handed[i].call

====
